---- MODULE Spec2Model ----
(***************************************************************************)
(* Model of the persistence codec (serialization.cpp) and of the map       *)
(* projector (map_renderer.h) of the transport catalogue.                  *)
(*                                                                         *)
(* Conventions.                                                            *)
(*  - std::optional<T> and a protobuf field with presence are sequences of *)
(*    length 0 (unset) or 1 (set).  A getter of an unset field returns the *)
(*    protobuf default (0, or the default message).                        *)
(*  - std::vector / repeated fields are sequences; the C++ index i is the  *)
(*    sequence position i + 1.  Ids stored as data (edge ids, vertex ids,  *)
(*    stop ids) keep their 0-based values.                                 *)
(*  - doubles are modelled by integers; the codec only copies them.        *)
(***************************************************************************)
EXTENDS Integers, Sequences, FiniteSets, TLC

VARIABLES
    \* the route-table codec
    routes,        \* Router::RoutesInternalData held in memory (input of Serialize)
    router_msg,    \* the protobuf Router message at hand, as an optional
    routes_out,    \* outcome of the last details::Deserialize(const Router&)
    writes,        \* the (from_id, to_id) pairs that call stored into `data`
    \* the graph codec
    graph,         \* TransportRouter::Graph held in memory
    graph_msg,     \* the protobuf Graph message at hand, as an optional
    graph_out,     \* outcome of the last details::Deserialize(const Graph&)
    \* the catalogue codec
    catalogue,     \* transport_catalogue::TransportCatalogue held in memory
    catalogue_msg, \* the protobuf TransportCatalogue message at hand
    catalogue_out, \* outcome of the last details::Deserialize(const TransportCatalogue&)
    \* the sphere projector
    proj_args,     \* arguments of the SphereProjector constructor
    projector,     \* the constructed SphereProjector, as an optional
    projected,     \* the last result of SphereProjector::operator()
    \* the top-level Serialize / Deserialize
    db,            \* catalogue, map renderer and transport router held in memory
    stream,        \* the byte stream: framing and the Database message it carries
    result,        \* outcome of the last Deserialize(istream&)
    op,            \* the last operation on the stream
    \* the map renderer
    render_args,   \* the MapRenderer's settings and the bus range given to RenderMap
    document,      \* outcome of the last MapRenderer::RenderMap
    \* the render-settings codec
    render_settings,     \* renderer::RenderSettings held in memory
    render_settings_msg, \* the protobuf RenderSettings message at hand, as an optional
    render_settings_out  \* outcome of the last details::Deserialize(const RenderSettings&)

routerVars == <<routes, router_msg, routes_out, writes>>
graphVars == <<graph, graph_msg, graph_out>>
catalogueVars == <<catalogue, catalogue_msg, catalogue_out>>
projectorVars == <<proj_args, projector, projected>>
topVars == <<db, stream, result, op>>
renderVars == <<render_args, document>>
settingsVars == <<render_settings, render_settings_msg, render_settings_out>>

vars == <<routerVars, graphVars, catalogueVars, projectorVars, topVars,
          renderVars, settingsVars>>

----------------------------------------------------------------------------
(* Bounds of the model *)

MaxV == 2
MaxRoutes == 2
MaxEdgeId == 1
MaxEdges == 2

\* Two distinct weights, one of them the protobuf default of a double.
Weights == {0, 5}

----------------------------------------------------------------------------
(* optional / field presence *)

Nullopt == <<>>
Some(x) == <<x>>
HasValue(o) == Len(o) = 1
Value(o) == o[1]

\* Getter of a scalar protobuf field: the stored value, or the default 0.
Scalar(field) == IF HasValue(field) THEN Value(field) ELSE 0

\* No call has been made yet.
NoOutcome == [status |-> "none", data |-> <<>>]

\* The parts of the state a specification does not exercise stay as they
\* are before any object is built.
IdleRouter ==
    /\ routes = <<>>
    /\ router_msg = Nullopt
    /\ routes_out = NoOutcome
    /\ writes = {}

IdleGraph ==
    /\ graph = <<>>
    /\ graph_msg = Nullopt
    /\ graph_out = NoOutcome

IdleCatalogue ==
    /\ catalogue = <<>>
    /\ catalogue_msg = Nullopt
    /\ catalogue_out = NoOutcome

IdleProjector ==
    /\ proj_args = <<>>
    /\ projector = Nullopt
    /\ projected = Nullopt

IdleTop ==
    /\ db = <<>>
    /\ stream = Nullopt
    /\ result = NoOutcome
    /\ op = "none"

IdleRender ==
    /\ render_args = <<>>
    /\ document = NoOutcome

IdleSettings ==
    /\ render_settings = <<>>
    /\ render_settings_msg = Nullopt
    /\ render_settings_out = NoOutcome

----------------------------------------------------------------------------
(* Router: the route table *)

\* Getter of RouteData.prev_edge: the EdgeId message, or the default one.
PrevEdgeOf(route_data) ==
    IF HasValue(route_data.prev_edge) THEN Value(route_data.prev_edge)
    ELSE [id |-> Nullopt]

\* Getter of Route.data: the RouteData message, or the default one.
DataOf(route) ==
    IF HasValue(route.data) THEN Value(route.data)
    ELSE [weight |-> Nullopt, prev_edge |-> Nullopt]

\* A plausible slip: the predecessor is written unconditionally, an absent
\* one as edge id 0.
SerializeRouteAlwaysPrev(route) ==
    IF HasValue(route)
    THEN [data |-> Some(
            [weight    |-> Some(Value(route).weight),
             prev_edge |-> Some([id |-> IF HasValue(Value(route).prev_edge)
                                        THEN Some(Value(Value(route).prev_edge))
                                        ELSE Nullopt])])]
    ELSE [data |-> Nullopt]

\* The body of the inner loop of Serialize(const Router&): one Route message.
SerializeRoute(route) ==
    IF HasValue(route)
    THEN [data |-> Some(
            [weight    |-> Some(Value(route).weight),
             prev_edge |-> IF HasValue(Value(route).prev_edge)
                           THEN Some([id |-> Some(Value(Value(route).prev_edge))])
                           ELSE Nullopt])]
    ELSE [data |-> Nullopt]

\* Router Serialize(const Router&): one RouteList per row, one Route per entry.
SerializeRouter(table) ==
    [route_list |->
        [f \in 1..Len(table) |->
            [route |-> [t \in 1..Len(table[f]) |-> SerializeRoute(table[f][t])]]]]

\* The value Deserialize stores for a Route message that has data.
RouteInternalData(route) ==
    [weight    |-> Scalar(DataOf(route).weight),
     prev_edge |-> IF HasValue(DataOf(route).prev_edge)
                   THEN Some(Scalar(PrevEdgeOf(DataOf(route)).id))
                   ELSE Nullopt]

\* Whether the loops reach position t of row f and find a Route with data
\* there (to_id < route_size() and has_data()).
StoresAt(object, f, t) ==
    /\ t <= Len(object.route_list[f].route)
    /\ HasValue(object.route_list[f].route[t].data)

\* Every store `data[from_id][to_id] = ...` the two loops of
\* Deserialize(const Router&) perform, as <<from_id, to_id>> (0-based):
\* from_id runs over the rows, to_id over route_size() of that row.
RouterWrites(object) ==
    UNION {{<<f - 1, t - 1>> :
                t \in {u \in 1..Len(object.route_list[f].route) :
                          StoresAt(object, f, u)}} :
           f \in 1..Len(object.route_list)}

\* A store is inside `data` when both indices are below vertex_count.
InBounds(object, w) ==
    w[1] < Len(object.route_list) /\ w[2] < Len(object.route_list)

\* The table Deserialize(const Router&) returns when every store is inside
\* `data`: vertex_count = route_list_size() rows of vertex_count nullopts,
\* overwritten at (from_id, to_id) for each Route that has data.
DeserializeRouter(object) ==
    [f \in 1..Len(object.route_list) |->
        [t \in 1..Len(object.route_list) |->
            IF StoresAt(object, f, t)
            THEN Some(RouteInternalData(object.route_list[f].route[t]))
            ELSE Nullopt]]

\* What a call of Deserialize(const Router&) can end in.  A store outside
\* `data` is undefined behaviour: the call may crash, may return the table
\* built by the stores inside `data`, or may return it with the next row's
\* cell overwritten through the overrun.
RouterOutcomes(object) ==
    LET table == DeserializeRouter(object)
        V     == Len(object.route_list)
        oob   == {w \in RouterWrites(object) : ~InBounds(object, w)}
        spill == {w \in oob : w[1] + 1 < V /\ w[2] - V < V}
    IN  IF oob = {}
        THEN {[status |-> "returned", data |-> table]}
        ELSE {[status |-> "crashed", data |-> <<>>],
              [status |-> "returned", data |-> table]}
             \cup {[status |-> "returned",
                    data |-> [table EXCEPT ![w[1] + 2][w[2] - V + 1] =
                                Some(RouteInternalData(
                                    object.route_list[w[1] + 1].route[w[2] + 1]))]] :
                   w \in spill}

----------------------------------------------------------------------------
(* Inputs: route tables the Router can hold *)

RouteValues ==
    {[weight |-> w, prev_edge |-> p] :
        w \in Weights, p \in {Nullopt} \cup {Some(e) : e \in 0..MaxEdgeId}}

\* The V x V table whose present entries are those of `a`, a function from
\* a set of cells <<row, column>> to route values.
TableOf(V, a) ==
    [f \in 1..V |-> [t \in 1..V |->
        IF <<f, t>> \in DOMAIN a THEN Some(a[<<f, t>>]) ELSE Nullopt]]

\* The sets of at most k cells of a V x V table.
CellPicks(V, k) == {S \in SUBSET ((1..V) \X (1..V)) : Cardinality(S) <= k}

----------------------------------------------------------------------------
(* Specification of the route-table codec *)

InitRouter ==
    /\ \E V \in 0..MaxV : \E S \in CellPicks(V, MaxRoutes) :
            \E a \in [S -> RouteValues] : routes = TableOf(V, a)
    /\ router_msg = Nullopt
    /\ routes_out = NoOutcome
    /\ writes = {}
    /\ IdleGraph /\ IdleCatalogue /\ IdleProjector /\ IdleTop
    /\ IdleRender /\ IdleSettings

\* Router Serialize(const Router&) applied to the table in memory.
DoSerializeRouter ==
    /\ router_msg' = Some(SerializeRouter(routes))
    /\ UNCHANGED <<routes, routes_out, writes>>
    /\ UNCHANGED <<graphVars, catalogueVars, projectorVars, topVars, renderVars, settingsVars>>

\* Deserialize(const Router&) applied to the message at hand.
DoDeserializeRouter ==
    /\ HasValue(router_msg)
    /\ writes' = RouterWrites(Value(router_msg))
    /\ routes_out' \in RouterOutcomes(Value(router_msg))
    /\ UNCHANGED <<routes, router_msg>>
    /\ UNCHANGED <<graphVars, catalogueVars, projectorVars, topVars, renderVars, settingsVars>>

NextRouter ==
    \/ DoSerializeRouter
    \/ DoDeserializeRouter

SpecRouter == InitRouter /\ [][NextRouter]_vars

----------------------------------------------------------------------------
(* C1 *)

\* The route in memory at (from_id, to_id) and the decoded one agree.
SameRoute(a, b) ==
    /\ HasValue(a) = HasValue(b)
    /\ HasValue(a) =>
        /\ Value(a).weight = Value(b).weight
        /\ HasValue(Value(a).prev_edge) = HasValue(Value(b).prev_edge)
        /\ HasValue(Value(a).prev_edge) =>
              Value(Value(a).prev_edge) = Value(Value(b).prev_edge)

\* C1: route-table round trip.  Whenever the message at hand is the encoding
\* of the table in memory and it has been decoded, the decoded table is
\* V x V and agrees with the original entry by entry in presence, weight and
\* predecessor; an entry without predecessor is decoded neither as absent
\* nor with predecessor 0, and an absent entry is decoded as absent.
C1_RouteTableRoundTrip ==
    (routes_out.status # "none" /\ router_msg = Some(SerializeRouter(routes))) =>
        /\ routes_out.status = "returned"
        /\ Len(routes_out.data) = Len(routes)
        /\ \A f \in 1..Len(routes) :
            /\ Len(routes_out.data[f]) = Len(routes)
            /\ \A t \in 1..Len(routes) :
                SameRoute(routes[f][t], routes_out.data[f][t])

\* A decoded 2 x 2 table holding an absent entry, an entry without
\* predecessor and an entry with predecessor 0.
C1_Witness ==
    /\ routes_out.status = "returned"
    /\ Len(routes) = 2
    /\ routes[1][1] = Nullopt
    /\ routes[1][2] = Some([weight |-> 0, prev_edge |-> Nullopt])
    /\ routes[2][1] = Some([weight |-> 5, prev_edge |-> Some(0)])
    /\ routes_out.data = routes
----------------------------------------------------------------------------
(* Graph: the directed weighted graph and its codec *)

\* Graph(vertex_count): no edges yet.
NewGraph(vertex_count) == [vertex_count |-> vertex_count, edges |-> <<>>]

GetVertexCount(g) == g.vertex_count
GetEdgeCount(g) == Len(g.edges)
\* The edge with 0-based id edge_id.
GetEdge(g, edge_id) == g.edges[edge_id + 1]

\* add_edge: appends the edge, whose id is the edge count before the call;
\* an endpoint outside [0, V) or a negative weight is refused.
CanAddEdge(g, edge) ==
    /\ edge.from < g.vertex_count
    /\ edge.to < g.vertex_count
    /\ edge.weight >= 0

AddEdge(g, edge) == [g EXCEPT !.edges = Append(@, edge)]

\* A plausible slip: the endpoints are written crosswise.
SerializeEdgeSwapped(edge) ==
    [from |-> Some(edge.to), to |-> Some(edge.from), weight |-> Some(edge.weight)]

\* One Edge message of Serialize(const Graph&): SET_X of from, to, weight.
SerializeEdge(edge) ==
    [from |-> Some(edge.from), to |-> Some(edge.to), weight |-> Some(edge.weight)]

\* Graph Serialize(const Graph&): the vertex count, then one Edge message per
\* edge id from 0 to GetEdgeCount() - 1.
SerializeGraph(g) ==
    [vertex_count |-> Some(GetVertexCount(g)),
     edge |-> [e \in 1..GetEdgeCount(g) |-> SerializeEdge(GetEdge(g, e - 1))]]

\* The graph::Edge<double> built from an Edge message.
EdgeOf(edge_msg) ==
    [from |-> Scalar(edge_msg.from), to |-> Scalar(edge_msg.to),
     weight |-> Scalar(edge_msg.weight)]

\* The loop of Deserialize(const Graph&) from position edge_id on: AddEdge of
\* each Edge message in message order; a refused edge ends the call.
RECURSIVE AddEdgesFrom(_, _, _)
AddEdgesFrom(object, edge_id, g) ==
    IF edge_id > Len(object.edge)
    THEN [status |-> "returned", data |-> g]
    ELSE IF ~CanAddEdge(g, EdgeOf(object.edge[edge_id]))
         THEN [status |-> "failed", data |-> <<>>]
         ELSE AddEdgesFrom(object, edge_id + 1,
                           AddEdge(g, EdgeOf(object.edge[edge_id])))

\* Graph Deserialize(const Graph&).
DeserializeGraph(object) ==
    AddEdgesFrom(object, 1, NewGraph(Scalar(object.vertex_count)))

\* Inputs: the graphs with V vertices and at most MaxEdges edges.
EdgeValues(V) ==
    {[from |-> a, to |-> b, weight |-> w] :
        a \in 0..V - 1, b \in 0..V - 1, w \in Weights}

InitGraph ==
    /\ \E V \in 0..MaxV : \E n \in 0..MaxEdges :
            \E es \in [1..n -> EdgeValues(V)] :
                graph = [vertex_count |-> V, edges |-> es]
    /\ graph_msg = Nullopt
    /\ graph_out = NoOutcome
    /\ IdleRouter /\ IdleCatalogue /\ IdleProjector /\ IdleTop
    /\ IdleRender /\ IdleSettings

DoSerializeGraph ==
    /\ graph_msg' = Some(SerializeGraph(graph))
    /\ UNCHANGED <<graph, graph_out>>
    /\ UNCHANGED <<routerVars, catalogueVars, projectorVars, topVars, renderVars, settingsVars>>

DoDeserializeGraph ==
    /\ HasValue(graph_msg)
    /\ graph_out' = DeserializeGraph(Value(graph_msg))
    /\ UNCHANGED <<graph, graph_msg>>
    /\ UNCHANGED <<routerVars, catalogueVars, projectorVars, topVars, renderVars, settingsVars>>

NextGraph ==
    \/ DoSerializeGraph
    \/ DoDeserializeGraph

SpecGraph == InitGraph /\ [][NextGraph]_vars

\* C7: graph round trip.  A graph whose edges have endpoints below V,
\* encoded and decoded, has the same vertex count and edge count, and for
\* every edge id in [0, E) the same from, to and weight: ids are preserved.
C7_GraphRoundTrip ==
    (graph_out.status # "none" /\ graph_msg = Some(SerializeGraph(graph))) =>
        /\ graph_out.status = "returned"
        /\ GetVertexCount(graph_out.data) = GetVertexCount(graph)
        /\ GetEdgeCount(graph_out.data) = GetEdgeCount(graph)
        /\ \A e \in 0..GetEdgeCount(graph) - 1 :
            /\ GetEdge(graph_out.data, e).from = GetEdge(graph, e).from
            /\ GetEdge(graph_out.data, e).to = GetEdge(graph, e).to
            /\ GetEdge(graph_out.data, e).weight = GetEdge(graph, e).weight

\* A decoded graph of two vertices with two different edges, edge 0 from
\* vertex 0 to vertex 1 and edge 1 back.
C7_Witness ==
    /\ graph_out.status = "returned"
    /\ GetVertexCount(graph) = 2
    /\ GetEdgeCount(graph) = 2
    /\ GetEdge(graph, 0) = [from |-> 0, to |-> 1, weight |-> 5]
    /\ GetEdge(graph, 1) = [from |-> 1, to |-> 0, weight |-> 0]
    /\ GetEdgeCount(graph_out.data) = 2
----------------------------------------------------------------------------
(* SphereProjector *)

(***************************************************************************)
(* Coordinates are integers in units of 5e-7 degree, so that EPSILON       *)
(* (1e-6) is 2 units and a span of 1 unit is below it.  A quotient of      *)
(* doubles is kept as a fraction [num, den] with den > 0 and compared by   *)
(* cross-multiplication.                                                   *)
(***************************************************************************)
EPSILON == 2

Abs(value) == IF value < 0 THEN -value ELSE value

\* A plausible slip: the comparison with EPSILON includes equality.
IsZeroInclusive(value) == Abs(value) <= EPSILON

IsZero(value) == Abs(value) < EPSILON

Frac(num, den) == [num |-> num, den |-> den]
FracLess(a, b) == a.num * b.den < b.num * a.den
FracEq(a, b) == a.num * b.den = b.num * a.den
\* std::min(a, b): b when b < a, else a.
FracMin(a, b) == IF FracLess(b, a) THEN b ELSE a

\* std::minmax_element over the keys the comparator reads (the longitudes,
\* or the latitudes, of the points in order): a scan that keeps the smallest
\* and the largest key seen so far.
RECURSIVE MinMaxFrom(_, _, _, _)
MinMaxFrom(keys, i, lo, hi) ==
    IF i > Len(keys) THEN <<lo, hi>>
    ELSE MinMaxFrom(keys, i + 1,
                    IF keys[i] < lo THEN keys[i] ELSE lo,
                    IF keys[i] < hi THEN hi ELSE keys[i])

MinMax(keys) == MinMaxFrom(keys, 2, keys[1], keys[1])

\* The constructor: the projector's four fields.
SphereProjector(points, max_width, max_height, padding) ==
    IF Len(points) = 0
    THEN [padding_ |-> padding, min_lon_ |-> 0, max_lat_ |-> 0,
          zoom_coeff_ |-> Frac(0, 1)]
    ELSE
    LET lon == MinMax([i \in 1..Len(points) |-> points[i].lng])
        lat == MinMax([i \in 1..Len(points) |-> points[i].lat])
        min_lon == lon[1]
        max_lon == lon[2]
        min_lat == lat[1]
        max_lat == lat[2]
        width_zoom ==
            IF ~IsZero(max_lon - min_lon)
            THEN Some(Frac(max_width - 2 * padding, max_lon - min_lon))
            ELSE Nullopt
        height_zoom ==
            IF ~IsZero(max_lat - min_lat)
            THEN Some(Frac(max_height - 2 * padding, max_lat - min_lat))
            ELSE Nullopt
    IN  [padding_ |-> padding, min_lon_ |-> min_lon, max_lat_ |-> max_lat,
         zoom_coeff_ |->
            IF HasValue(width_zoom) /\ HasValue(height_zoom)
            THEN FracMin(Value(width_zoom), Value(height_zoom))
            ELSE IF HasValue(width_zoom) THEN Value(width_zoom)
            ELSE IF HasValue(height_zoom) THEN Value(height_zoom)
            ELSE Frac(0, 1)]

\* operator()(coords): the svg::Point, each coordinate a fraction.
Project(p, coords) ==
    [x |-> Frac((coords.lng - p.min_lon_) * p.zoom_coeff_.num
                    + p.padding_ * p.zoom_coeff_.den, p.zoom_coeff_.den),
     y |-> Frac((p.max_lat_ - coords.lat) * p.zoom_coeff_.num
                    + p.padding_ * p.zoom_coeff_.den, p.zoom_coeff_.den)]

\* Inputs.
MaxPoints == 2
MaxCoord == 2

Coordinates == {[lat |-> a, lng |-> b] : a \in 0..MaxCoord, b \in 0..MaxCoord}

\* <<max_width, max_height, padding>>; the last has 2 * padding > max_width.
Canvases == {<<12, 6, 1>>, <<6, 12, 0>>, <<6, 12, 4>>}

InitProjector ==
    /\ \E n \in 0..MaxPoints : \E ps \in [1..n -> Coordinates] :
        \E c \in Canvases :
            proj_args = [points |-> ps, max_width |-> c[1],
                         max_height |-> c[2], padding |-> c[3]]
    /\ projector = Nullopt
    /\ projected = Nullopt
    /\ IdleRouter /\ IdleGraph /\ IdleCatalogue /\ IdleTop
    /\ IdleRender /\ IdleSettings

Construct ==
    /\ projector' = Some(SphereProjector(proj_args.points, proj_args.max_width,
                                         proj_args.max_height, proj_args.padding))
    /\ UNCHANGED <<proj_args, projected>>
    /\ UNCHANGED <<routerVars, graphVars, catalogueVars, topVars, renderVars, settingsVars>>

DoProject ==
    /\ HasValue(projector)
    /\ \E coords \in Coordinates :
        projected' = Some(Project(Value(projector), coords))
    /\ UNCHANGED <<proj_args, projector>>
    /\ UNCHANGED <<routerVars, graphVars, catalogueVars, topVars, renderVars, settingsVars>>

NextProjector ==
    \/ Construct
    \/ DoProject

SpecProjector == InitProjector /\ [][NextProjector]_vars

\* The spans of the point set, from the set of its longitudes and latitudes.
SetMax(S) == CHOOSE m \in S : \A x \in S : x <= m
SetMin(S) == CHOOSE m \in S : \A x \in S : m <= x
LonSpan(points) ==
    LET S == {points[i].lng : i \in 1..Len(points)} IN SetMax(S) - SetMin(S)
LatSpan(points) ==
    LET S == {points[i].lat : i \in 1..Len(points)} IN SetMax(S) - SetMin(S)

\* C9: zoom selection of the SphereProjector.  With a non-empty point set,
\* the zoom coefficient is the smaller of the width zoom and the height zoom
\* when both spans are at least EPSILON, the width zoom when only the
\* longitude span is, the height zoom when only the latitude span is; when
\* neither is, or there is no point, it is 0 and every coordinate projects
\* to (padding, padding).
C9_ZoomSelection ==
    HasValue(projector) =>
        LET a == proj_args
            z == Value(projector).zoom_coeff_
            wide == Len(a.points) > 0 /\ LonSpan(a.points) >= EPSILON
            high == Len(a.points) > 0 /\ LatSpan(a.points) >= EPSILON
            wz == Frac(a.max_width - 2 * a.padding, LonSpan(a.points))
            hz == Frac(a.max_height - 2 * a.padding, LatSpan(a.points))
        IN  /\ z.den > 0
            /\ (wide /\ high) =>
                  /\ FracEq(z, wz) \/ FracEq(z, hz)
                  /\ ~FracLess(wz, z) /\ ~FracLess(hz, z)
            /\ (wide /\ ~high) => FracEq(z, wz)
            /\ (~wide /\ high) => FracEq(z, hz)
            /\ (~wide /\ ~high) =>
                  /\ z.num = 0
                  /\ HasValue(projected) =>
                        /\ FracEq(Value(projected).x, Frac(a.padding, 1))
                        /\ FracEq(Value(projected).y, Frac(a.padding, 1))

\* Two points whose longitudes differ by exactly EPSILON and whose latitudes
\* differ by less: only the width zoom is taken.
C9_Witness ==
    /\ HasValue(projector)
    /\ Len(proj_args.points) = 2
    /\ LonSpan(proj_args.points) = EPSILON
    /\ LatSpan(proj_args.points) = 1
    /\ FracEq(Value(projector).zoom_coeff_,
              Frac(proj_args.max_width - 2 * proj_args.padding, EPSILON))
    /\ HasValue(projected)
----------------------------------------------------------------------------
(* TransportCatalogue: the catalogue snapshot and its codec *)

(***************************************************************************)
(* A catalogue is [stops, distances, buses]: stops is the deque of stops,  *)
(* each [ptr, name, coordinates] with ptr its address (a StopPtr);         *)
(* distances is a function from <<from ptr, to ptr>> to the distance;      *)
(* buses is the deque of buses, each [name, is_roundtrip, stops] with      *)
(* stops a sequence of StopPtr.                                            *)
(***************************************************************************)
EmptyCatalogue == [stops |-> <<>>, distances |-> <<>>, buses |-> <<>>]

\* The address the next stop added to the catalogue gets.
NextStopPtr(cat) == 101 + Len(cat.stops)

\* What a reference past the end of all_stops or of the stop list yields.
Dangling == 0

AddStop(cat, name, coordinates) ==
    [cat EXCEPT !.stops = Append(@, [ptr |-> NextStopPtr(cat), name |-> name,
                                     coordinates |-> coordinates])]

\* FindStop(name): the address of the stop with that name.
FindStop(cat, name) ==
    LET i == CHOOSE i \in 1..Len(cat.stops) : cat.stops[i].name = name
    IN  cat.stops[i].ptr

\* SetDistance(from, to, distance): the distance of the ordered pair.
SetDistance(cat, from, to, distance) ==
    [cat EXCEPT !.distances =
        [pair \in DOMAIN @ \cup {<<from, to>>} |->
            IF pair = <<from, to>> THEN distance ELSE @[pair]]]

AddBus(cat, bus) == [cat EXCEPT !.buses = Append(@, bus)]

\* The stop an address points to.
Deref(cat, ptr) ==
    cat.stops[CHOOSE i \in 1..Len(cat.stops) : cat.stops[i].ptr = ptr]

\* stop_to_id[ptr] once the first loop of Serialize has filled the map: the
\* position the stop had in GetStopsRange(); operator[] of an address that
\* is not a key inserts and returns 0.
StopToId(cat, ptr) ==
    IF \E i \in 1..Len(cat.stops) : cat.stops[i].ptr = ptr
    THEN (CHOOSE i \in 1..Len(cat.stops) : cat.stops[i].ptr = ptr) - 1
    ELSE 0

\* A plausible slip: the distance is filed under the destination stop, keyed
\* by the origin.
DistanceMapOnDestination(cat, from_id) ==
    LET pairs == {pr \in DOMAIN cat.distances : StopToId(cat, pr[2]) = from_id}
    IN  [to_id \in {StopToId(cat, pr[1]) : pr \in pairs} |->
            cat.distances[CHOOSE pr \in pairs : StopToId(cat, pr[1]) = to_id]]

\* The `distance` map of the Stop message with id from_id after the second
\* loop of Serialize: to_id -> distance for every pair recorded from it.
DistanceMap(cat, from_id) ==
    LET pairs == {pr \in DOMAIN cat.distances : StopToId(cat, pr[1]) = from_id}
    IN  [to_id \in {StopToId(cat, pr[2]) : pr \in pairs} |->
            cat.distances[CHOOSE pr \in pairs : StopToId(cat, pr[2]) = to_id]]

\* Stop Serialize(const Stop&) with the distances of the second loop.
SerializeStop(cat, i) ==
    [name |-> Some(cat.stops[i].name),
     lat |-> Some(cat.stops[i].coordinates.lat),
     lng |-> Some(cat.stops[i].coordinates.lng),
     distance |-> DistanceMap(cat, i - 1)]

\* Bus Serialize(const Bus&) with the stop ids of the third loop.
SerializeBus(cat, bus) ==
    [name |-> Some(bus.name),
     is_roundtrip |-> Some(bus.is_roundtrip),
     stop_id |-> [k \in 1..Len(bus.stops) |-> StopToId(cat, bus.stops[k])]]

\* TransportCatalogue Serialize(const TransportCatalogue&).
SerializeTransportCatalogue(cat) ==
    [stop_list |-> Some([stop |-> [i \in 1..Len(cat.stops) |-> SerializeStop(cat, i)]]),
     bus_list |-> Some([bus |-> [b \in 1..Len(cat.buses) |->
                                    SerializeBus(cat, cat.buses[b])]])]

\* Getters of the message and of its parts.
StopListOf(object) ==
    IF HasValue(object.stop_list) THEN Value(object.stop_list).stop ELSE <<>>
BusListOf(object) ==
    IF HasValue(object.bus_list) THEN Value(object.bus_list).bus ELSE <<>>
\* A string field: the stored value, or the empty string.
Text(field) == IF HasValue(field) THEN Value(field) ELSE ""
\* A bool field: the stored value, or false.
Flag(field) == IF HasValue(field) THEN Value(field) ELSE FALSE

\* First loop of Deserialize: AddStop of every Stop message in order;
\* all_stops collects FindStop(name) after each.
RECURSIVE AddStopsFrom(_, _, _, _)
AddStopsFrom(stops, stop_id, cat, all_stops) ==
    IF stop_id > Len(stops) THEN [cat |-> cat, all_stops |-> all_stops]
    ELSE LET stop_raw == stops[stop_id]
             next == AddStop(cat, Text(stop_raw.name),
                             [lat |-> Scalar(stop_raw.lat), lng |-> Scalar(stop_raw.lng)])
         IN  AddStopsFrom(stops, stop_id + 1, next,
                          Append(all_stops, FindStop(next, Text(stop_raw.name))))

\* stop_list.stop(to_id).name() resolved by FindStop; an id past the end of
\* the list reads outside it.
StopByListId(stops, cat, to_id) ==
    IF to_id < Len(stops) THEN FindStop(cat, Text(stops[to_id + 1].name))
    ELSE Dangling

\* Second loop of Deserialize, the inner loop for one Stop message: the
\* entries of its distance map, here in ascending order of to_id.
RECURSIVE SetDistancesOf(_, _, _, _)
SetDistancesOf(stops, from_id, todo, cat) ==
    IF todo = {} THEN cat
    ELSE LET to_id == CHOOSE x \in todo : \A y \in todo : x <= y
         IN  SetDistancesOf(stops, from_id, todo \ {to_id},
                SetDistance(cat, FindStop(cat, Text(stops[from_id + 1].name)),
                            StopByListId(stops, cat, to_id),
                            stops[from_id + 1].distance[to_id]))

\* Second loop of Deserialize, the outer loop from from_id on.
RECURSIVE SetDistancesFrom(_, _, _)
SetDistancesFrom(stops, from_id, cat) ==
    IF from_id >= Len(stops) THEN cat
    ELSE SetDistancesFrom(stops, from_id + 1,
            SetDistancesOf(stops, from_id, DOMAIN stops[from_id + 1].distance, cat))

\* all_stops[stop_id]; an id past the end reads outside the vector.
StopByVectorId(all_stops, stop_id) ==
    IF stop_id < Len(all_stops) THEN all_stops[stop_id + 1] ELSE Dangling

\* Third loop of Deserialize from position bus_id on: AddBus of every Bus
\* message in order.
RECURSIVE AddBusesFrom(_, _, _, _)
AddBusesFrom(buses, bus_id, all_stops, cat) ==
    IF bus_id > Len(buses) THEN cat
    ELSE LET bus == buses[bus_id]
         IN  AddBusesFrom(buses, bus_id + 1, all_stops,
                AddBus(cat, [name |-> Text(bus.name),
                             is_roundtrip |-> Flag(bus.is_roundtrip),
                             stops |-> [k \in 1..Len(bus.stop_id) |->
                                          StopByVectorId(all_stops, bus.stop_id[k])]]))

\* TransportCatalogue Deserialize(const TransportCatalogue&).
DeserializeTransportCatalogue(object) ==
    LET first == AddStopsFrom(StopListOf(object), 1, EmptyCatalogue, <<>>)
        second == SetDistancesFrom(StopListOf(object), 0, first.cat)
    IN  AddBusesFrom(BusListOf(object), 1, first.all_stops, second)

\* Whether every stop id of the message is below the number of stops.
IdsInRange(object) ==
    /\ \A i \in 1..Len(StopListOf(object)) :
          \A to_id \in DOMAIN StopListOf(object)[i].distance :
              to_id < Len(StopListOf(object))
    /\ \A b \in 1..Len(BusListOf(object)) :
          \A k \in 1..Len(BusListOf(object)[b].stop_id) :
              BusListOf(object)[b].stop_id[k] < Len(StopListOf(object))

\* What a call of Deserialize(const TransportCatalogue&) can end in.  A
\* stop id past the end is undefined behaviour: the call may crash or may
\* return a catalogue holding a dangling address.
CatalogueOutcomes(object) ==
    IF IdsInRange(object)
    THEN {[status |-> "returned", data |-> DeserializeTransportCatalogue(object)]}
    ELSE {[status |-> "crashed", data |-> <<>>],
          [status |-> "returned", data |-> DeserializeTransportCatalogue(object)]}

\* Inputs: catalogues of at most MaxStops stops with pairwise distinct names,
\* at most MaxDistances recorded distances and up to two buses of up to two
\* stops each.  The i-th stop's name, address and coordinates and the
\* distance of a pair are fixed by position, all different.
MaxStops == 2
MaxDistances == 2

StopNames == <<"B", "A", "D", "C">>
BusNames == <<"9", "7">>
InputPtr(i) == 10 * (MaxStops + 2 - i)
InputStop(i) ==
    [ptr |-> InputPtr(i), name |-> StopNames[i],
     coordinates |-> [lat |-> 50 + i, lng |-> 30 + i]]

BusBodies(N) ==
    {[is_roundtrip |-> r, stops |-> st] :
        r \in BOOLEAN,
        st \in UNION {[1..n -> {InputPtr(i) : i \in 1..N}] : n \in 0..2}}

InitCatalogue ==
    /\ \E N \in 0..MaxStops :
       \E D \in {S \in SUBSET ((1..N) \X (1..N)) : Cardinality(S) <= MaxDistances} :
       \E nb \in 0..2 : \E bs \in [1..nb -> BusBodies(N)] :
            catalogue =
                [stops |-> [i \in 1..N |-> InputStop(i)],
                 distances |-> [pr \in {<<InputPtr(d[1]), InputPtr(d[2])>> : d \in D} |->
                                  10 * pr[1] + pr[2]],
                 buses |-> [b \in 1..nb |->
                              [name |-> BusNames[b],
                               is_roundtrip |-> bs[b].is_roundtrip,
                               stops |-> bs[b].stops]]]
    /\ catalogue_msg = Nullopt
    /\ catalogue_out = NoOutcome
    /\ IdleRouter /\ IdleGraph /\ IdleProjector /\ IdleTop
    /\ IdleRender /\ IdleSettings

DoSerializeCatalogue ==
    /\ catalogue_msg' = Some(SerializeTransportCatalogue(catalogue))
    /\ UNCHANGED <<catalogue, catalogue_out>>
    /\ UNCHANGED <<routerVars, graphVars, projectorVars, topVars, renderVars, settingsVars>>

DoDeserializeCatalogue ==
    /\ HasValue(catalogue_msg)
    /\ catalogue_out' \in CatalogueOutcomes(Value(catalogue_msg))
    /\ UNCHANGED <<catalogue, catalogue_msg>>
    /\ UNCHANGED <<routerVars, graphVars, projectorVars, topVars, renderVars, settingsVars>>

NextCatalogue ==
    \/ DoSerializeCatalogue
    \/ DoDeserializeCatalogue

SpecCatalogue == InitCatalogue /\ [][NextCatalogue]_vars

HasDistance(cat, from, to) == <<from, to>> \in DOMAIN cat.distances

\* C8: catalogue snapshot round trip.  A catalogue with pairwise distinct
\* stop names, encoded and decoded, has the same stops in the same order
\* (name, coordinates), the same distance for every ordered pair of stops
\* that had one and none for a pair that had none, and the same buses in the
\* same order, each with the same name, round-trip flag and stop sequence,
\* every stop of a bus being the stop of the same name as before.
C8_CatalogueRoundTrip ==
    (catalogue_out.status # "none"
        /\ catalogue_msg = Some(SerializeTransportCatalogue(catalogue))) =>
    LET a == catalogue
        b == catalogue_out.data
    IN  /\ catalogue_out.status = "returned"
        /\ Len(b.stops) = Len(a.stops)
        /\ \A i \in 1..Len(a.stops) :
            /\ b.stops[i].name = a.stops[i].name
            /\ b.stops[i].coordinates = a.stops[i].coordinates
        /\ \A i \in 1..Len(a.stops) : \A j \in 1..Len(a.stops) :
            /\ HasDistance(b, b.stops[i].ptr, b.stops[j].ptr)
                  = HasDistance(a, a.stops[i].ptr, a.stops[j].ptr)
            /\ HasDistance(a, a.stops[i].ptr, a.stops[j].ptr) =>
                  b.distances[<<b.stops[i].ptr, b.stops[j].ptr>>]
                      = a.distances[<<a.stops[i].ptr, a.stops[j].ptr>>]
        /\ Cardinality(DOMAIN b.distances) = Cardinality(DOMAIN a.distances)
        /\ Len(b.buses) = Len(a.buses)
        /\ \A k \in 1..Len(a.buses) :
            /\ b.buses[k].name = a.buses[k].name
            /\ b.buses[k].is_roundtrip = a.buses[k].is_roundtrip
            /\ Len(b.buses[k].stops) = Len(a.buses[k].stops)
            /\ \A n \in 1..Len(a.buses[k].stops) :
                /\ \E i \in 1..Len(b.stops) : b.stops[i].ptr = b.buses[k].stops[n]
                /\ Deref(b, b.buses[k].stops[n]).name
                      = Deref(a, a.buses[k].stops[n]).name

\* A decoded catalogue of two stops with both directions of their distance
\* recorded and two buses, the first a round trip over both stops.
C8_Witness ==
    /\ catalogue_out.status = "returned"
    /\ Len(catalogue.stops) = 2
    /\ HasDistance(catalogue, InputPtr(1), InputPtr(2))
    /\ HasDistance(catalogue, InputPtr(2), InputPtr(1))
    /\ Len(catalogue.buses) = 2
    /\ catalogue.buses[1].is_roundtrip
    /\ catalogue.buses[1].stops = <<InputPtr(2), InputPtr(1)>>
    /\ Len(catalogue_out.data.buses) = 2
----------------------------------------------------------------------------
(* RenderSettings, colors and the map renderer *)

\* An in-memory svg::Color is [kind |-> "string", name], [kind |-> "rgb",
\* red, green, blue] or [kind |-> "rgba", red, green, blue, opacity].

\* static_cast<uint8_t> of a protobuf integer.
Uint8(v) == v % 256

\* Point Serialize(const svg::Point&) / svg::Point Deserialize(const Point&).
SerializePoint(point) == [x |-> Some(point.x), y |-> Some(point.y)]
DeserializePoint(object) == [x |-> Scalar(object.x), y |-> Scalar(object.y)]

\* Rgb Serialize(const svg::Rgb&) / Rgba Serialize(const svg::Rgba&).
SerializeRgb(rgb) ==
    [red |-> Some(rgb.red), green |-> Some(rgb.green), blue |-> Some(rgb.blue)]
SerializeRgba(rgba) ==
    [red |-> Some(rgba.red), green |-> Some(rgba.green), blue |-> Some(rgba.blue),
     opacity |-> Some(rgba.opacity)]

\* svg::Rgb Deserialize(const Rgb&) / svg::Rgba Deserialize(const Rgba&).
DeserializeRgb(object) ==
    [kind |-> "rgb", red |-> Uint8(Scalar(object.red)),
     green |-> Uint8(Scalar(object.green)), blue |-> Uint8(Scalar(object.blue))]
DeserializeRgba(object) ==
    [kind |-> "rgba", red |-> Uint8(Scalar(object.red)),
     green |-> Uint8(Scalar(object.green)), blue |-> Uint8(Scalar(object.blue)),
     opacity |-> Scalar(object.opacity)]

\* Color Serialize(const svg::Color&): exactly one of name, rgb, rgba is set.
SerializeColor(color) ==
    IF color.kind = "string"
    THEN [name |-> Some(color.name), rgb |-> Nullopt, rgba |-> Nullopt]
    ELSE IF color.kind = "rgb"
    THEN [name |-> Nullopt, rgb |-> Some(SerializeRgb(color)), rgba |-> Nullopt]
    ELSE [name |-> Nullopt, rgb |-> Nullopt, rgba |-> Some(SerializeRgba(color))]

\* A plausible slip: has_rgba() is not consulted.
DeserializeColorNoRgba(object) ==
    IF HasValue(object.rgb) THEN DeserializeRgb(Value(object.rgb))
    ELSE [kind |-> "string", name |-> Text(object.name)]

\* svg::Color Deserialize(const Color&): rgba first, then rgb, else the name.
DeserializeColor(object) ==
    IF HasValue(object.rgba) THEN DeserializeRgba(Value(object.rgba))
    ELSE IF HasValue(object.rgb) THEN DeserializeRgb(Value(object.rgb))
    ELSE [kind |-> "string", name |-> Text(object.name)]

DefaultPointMsg == [x |-> Nullopt, y |-> Nullopt]
DefaultColorMsg == [name |-> Nullopt, rgb |-> Nullopt, rgba |-> Nullopt]
\* A message field: its value, or the default message when it is unset.
Sub(field, default) == IF HasValue(field) THEN Value(field) ELSE default

\* RenderSettings Serialize(const renderer::RenderSettings&).
SerializeRenderSettings(rs) ==
    [width |-> Some(rs.width),
     height |-> Some(rs.height),
     padding |-> Some(rs.padding),
     line_width |-> Some(rs.line_width),
     stop_radius |-> Some(rs.stop_radius),
     bus_label_font_size |-> Some(rs.bus_label_font_size),
     stop_label_font_size |-> Some(rs.stop_label_font_size),
     underlayer_width |-> Some(rs.underlayer_width),
     bus_label_offset |-> Some(SerializePoint(rs.bus_label_offset)),
     stop_label_offset |-> Some(SerializePoint(rs.stop_label_offset)),
     underlayer_color |-> Some(SerializeColor(rs.underlayer_color)),
     color_palette |-> [i \in 1..Len(rs.color_palette) |->
                          SerializeColor(rs.color_palette[i])]]

\* renderer::RenderSettings Deserialize(const RenderSettings&).
DeserializeRenderSettings(object) ==
    [width |-> Scalar(object.width),
     height |-> Scalar(object.height),
     padding |-> Scalar(object.padding),
     line_width |-> Scalar(object.line_width),
     stop_radius |-> Scalar(object.stop_radius),
     bus_label_font_size |-> Scalar(object.bus_label_font_size),
     stop_label_font_size |-> Scalar(object.stop_label_font_size),
     underlayer_width |-> Scalar(object.underlayer_width),
     bus_label_offset |-> DeserializePoint(Sub(object.bus_label_offset, DefaultPointMsg)),
     stop_label_offset |-> DeserializePoint(Sub(object.stop_label_offset, DefaultPointMsg)),
     underlayer_color |-> DeserializeColor(Sub(object.underlayer_color, DefaultColorMsg)),
     color_palette |-> [i \in 1..Len(object.color_palette) |->
                          DeserializeColor(object.color_palette[i])]]

DefaultRenderSettingsMsg ==
    [width |-> Nullopt, height |-> Nullopt, padding |-> Nullopt,
     line_width |-> Nullopt, stop_radius |-> Nullopt,
     bus_label_font_size |-> Nullopt, stop_label_font_size |-> Nullopt,
     underlayer_width |-> Nullopt, bus_label_offset |-> Nullopt,
     stop_label_offset |-> Nullopt, underlayer_color |-> Nullopt,
     color_palette |-> <<>>]

\* MapRenderer Serialize(const renderer::MapRenderer&) and its Deserialize:
\* the renderer is its settings.
SerializeMapRenderer(settings) ==
    [render_settings |-> Some(SerializeRenderSettings(settings))]
DeserializeMapRenderer(object) ==
    DeserializeRenderSettings(Sub(object.render_settings, DefaultRenderSettingsMsg))

----------------------------------------------------------------------------
(* RoutingSettings and the TransportRouter *)

\* RoutingSettings Serialize / Deserialize.
SerializeRoutingSettings(rs) ==
    [bus_wait_time |-> Some(rs.bus_wait_time), bus_velocity |-> Some(rs.bus_velocity)]
DeserializeRoutingSettings(object) ==
    [bus_wait_time |-> Scalar(object.bus_wait_time),
     bus_velocity |-> Scalar(object.bus_velocity)]

DefaultRoutingSettingsMsg == [bus_wait_time |-> Nullopt, bus_velocity |-> Nullopt]
DefaultRouterMsg == [route_list |-> <<>>]

\* An in-memory transport router is [settings, routes, graph].
\* TransportRouter Serialize(const TransportRouter&): the routing settings
\* and the route table.
SerializeTransportRouter(tr) ==
    [routing_settings |-> Some(SerializeRoutingSettings(tr.settings)),
     router |-> Some(SerializeRouter(tr.routes))]

\* The Router message the decoder reads: object.router().
RouterMsgOf(object) == Sub(object.router, DefaultRouterMsg)

\* TransportRouter Deserialize(const TransportRouter&, const TransportCatalogue&),
\* given the table Deserialize(object.router()) came back with.
DeserializeTransportRouter(object, router_data, transport_catalogue) ==
    [settings |-> DeserializeRoutingSettings(
                      Sub(object.routing_settings, DefaultRoutingSettingsMsg)),
     routes |-> router_data,
     catalogue |-> transport_catalogue]
----------------------------------------------------------------------------
(* The top level: Serialize to a stream, Deserialize from a stream *)

(***************************************************************************)
(* A stream is [framing, database]: framing is "ok" when the bytes parse   *)
(* as a Database message and "truncated" when they do not; database is the *)
(* message they carry, [transport_catalogue, map_renderer,                 *)
(* transport_router], each an optional sub-message.                        *)
(***************************************************************************)
DefaultCatalogueMsg == [stop_list |-> Nullopt, bus_list |-> Nullopt]
DefaultMapRendererMsg == [render_settings |-> Nullopt]
DefaultTransportRouterMsg == [routing_settings |-> Nullopt, router |-> Nullopt]

\* void Serialize(catalogue, map_renderer, transport_router, ostream&).
Serialize(transport_catalogue, map_renderer, transport_router) ==
    [framing |-> "ok",
     database |->
        [transport_catalogue |-> Some(SerializeTransportCatalogue(transport_catalogue)),
         map_renderer |-> Some(SerializeMapRenderer(map_renderer)),
         transport_router |-> Some(SerializeTransportRouter(transport_router))]]

\* database.ParseFromIstream(&input).
ParseFromIstream(input) == input.framing = "ok"

\* The TransportRouter message the decoder reads: database.transport_router().
TransportRouterMsgOf(input) ==
    Sub(input.database.transport_router, DefaultTransportRouterMsg)

\* The three details::Deserialize calls of Deserialize(istream&) on a parsed
\* Database, for each way the catalogue and the route table can come back.
DecodeAll(input) ==
    LET database == input.database
        tr == TransportRouterMsgOf(input)
    IN  {IF c.status = "crashed" \/ r.status = "crashed"
         THEN [status |-> "crashed", data |-> <<>>]
         ELSE [status |-> "returned",
               data |-> [transport_catalogue |-> c.data,
                         map_renderer |-> DeserializeMapRenderer(
                             Sub(database.map_renderer, DefaultMapRendererMsg)),
                         transport_router |->
                             DeserializeTransportRouter(tr, r.data, c.data)]] :
         c \in CatalogueOutcomes(Sub(database.transport_catalogue, DefaultCatalogueMsg)),
         r \in RouterOutcomes(RouterMsgOf(tr))}

\* A plausible slip: the result of ParseFromIstream is not tested, and the
\* Database left by the failed parse is decoded.
DeserializeUnchecked(input) ==
    IF ParseFromIstream(input) THEN DecodeAll(input)
    ELSE DecodeAll([framing |-> "ok",
                    database |-> [transport_catalogue |-> Nullopt,
                                  map_renderer |-> Nullopt,
                                  transport_router |-> Nullopt]])

\* optional<DeserializeResult> Deserialize(istream&): every way the call can
\* end.
Deserialize(input) ==
    IF ~ParseFromIstream(input)
    THEN {[status |-> "nullopt", data |-> <<>>]}
    ELSE DecodeAll(input)

\* The blob section 4.4 of the specification describes: what Serialize
\* writes, with the Graph section (vertex count and edges in id order)
\* beside the route table.
SerializeWithGraph(transport_catalogue, map_renderer, transport_router) ==
    LET written == Serialize(transport_catalogue, map_renderer, transport_router)
        tr == Value(written.database.transport_router)
    IN  [written EXCEPT !.database.transport_router =
            Some([routing_settings |-> tr.routing_settings,
                  router |-> tr.router,
                  graph |-> Some(SerializeGraph(transport_router.graph))])]

\* Whether a TransportRouter message carries a Graph section, and the section.
HasGraphSection(tr) == "graph" \in DOMAIN tr /\ HasValue(tr.graph)
GraphSectionOf(tr) == Value(tr.graph)

\* Streams that did not come unchanged from a writer: one change to the
\* Router message of a written stream.
ReplaceRow(m, f, row) ==
    [route_list |-> [g \in 1..Len(m.route_list) |->
                        IF g = f THEN [route |-> row] ELSE m.route_list[g]]]

ExtraRoutes ==
    {SerializeRoute(Nullopt),
     SerializeRoute(Some([weight |-> 5, prev_edge |-> Nullopt]))}

DamagedRouters(m) ==
    LET rows == m.route_list
        present == {c \in (1..Len(rows)) \X (1..MaxV + 1) :
                        /\ c[2] <= Len(rows[c[1]].route)
                        /\ HasValue(rows[c[1]].route[c[2]].data)}
    IN  \* the last row is missing, or an empty row follows the last
        {[route_list |-> SubSeq(rows, 1, Len(rows) - 1)] : x \in {Len(rows)} \ {0}}
        \cup {[route_list |-> Append(rows, [route |-> <<>>])]}
        \* a row lost its last entry, or got one more
        \cup {ReplaceRow(m, f, SubSeq(rows[f].route, 1, Len(rows[f].route) - 1)) :
                f \in {g \in 1..Len(rows) : Len(rows[g].route) > 0}}
        \cup {ReplaceRow(m, f, Append(rows[f].route, r)) :
                f \in 1..Len(rows), r \in ExtraRoutes}
        \* a present entry lost its weight, or names an edge past the last
        \cup {ReplaceRow(m, c[1],
                [rows[c[1]].route EXCEPT ![c[2]].data =
                    Some([Value(@) EXCEPT !.weight = Nullopt])]) : c \in present}
        \cup {ReplaceRow(m, c[1],
                [rows[c[1]].route EXCEPT ![c[2]].data =
                    Some([Value(@) EXCEPT !.prev_edge =
                            Some([id |-> Some(MaxEdgeId + 1)])])]) : c \in present}

\* Inputs: what the process holds in memory.
SampleCatalogue ==
    [stops |-> [i \in 1..2 |-> InputStop(i)],
     distances |-> [pr \in {<<InputPtr(1), InputPtr(2)>>} |-> 1000],
     buses |-> <<[name |-> "9", is_roundtrip |-> FALSE,
                  stops |-> <<InputPtr(1), InputPtr(2)>>]>>]

SampleCatalogues == {EmptyCatalogue, SampleCatalogue}

SampleSettings ==
    [width |-> 600, height |-> 400, padding |-> 50, line_width |-> 14,
     stop_radius |-> 5, bus_label_font_size |-> 20,
     bus_label_offset |-> [x |-> 7, y |-> 15],
     stop_label_font_size |-> 18,
     stop_label_offset |-> [x |-> 7, y |-> -3],
     underlayer_color |-> [kind |-> "rgba", red |-> 255, green |-> 255,
                           blue |-> 255, opacity |-> 1],
     underlayer_width |-> 3,
     color_palette |-> <<[kind |-> "string", name |-> "green"],
                         [kind |-> "rgb", red |-> 255, green |-> 160, blue |-> 0]>>]

\* The graph of V vertices with edge ids 0..MaxEdgeId, edge k from vertex
\* k mod V to vertex (k + 1) mod V.
SampleGraph(V) ==
    [vertex_count |-> V,
     edges |-> IF V = 0 THEN <<>>
               ELSE [k \in 1..MaxEdgeId + 1 |->
                        [from |-> (k - 1) % V, to |-> k % V, weight |-> 5]]]

Init ==
    /\ \E cat \in SampleCatalogues : \E V \in 0..MaxV :
       \E S \in CellPicks(V, 1) : \E a \in [S -> RouteValues] :
            db = [catalogue |-> cat,
                  settings |-> SampleSettings,
                  router |-> [settings |-> [bus_wait_time |-> 6, bus_velocity |-> 40],
                              routes |-> TableOf(V, a),
                              graph |-> SampleGraph(V)]]
    /\ stream = Nullopt
    /\ result = NoOutcome
    /\ op = "none"
    /\ IdleRouter /\ IdleGraph /\ IdleCatalogue /\ IdleProjector
    /\ IdleRender /\ IdleSettings

\* make_base: Serialize writes what is in memory to the stream.
DoSerialize ==
    /\ op = "none"
    /\ stream' = Some(Serialize(db.catalogue, db.settings, db.router))
    /\ op' = "serialize"
    /\ UNCHANGED <<db, result>>
    /\ UNCHANGED <<routerVars, graphVars, catalogueVars, projectorVars, renderVars, settingsVars>>

\* The stream comes from a writer of the section 4.4 format instead.
ForeignWrite ==
    /\ op = "none"
    /\ stream' = Some(SerializeWithGraph(db.catalogue, db.settings, db.router))
    /\ op' = "foreign"
    /\ UNCHANGED <<db, result>>
    /\ UNCHANGED <<routerVars, graphVars, catalogueVars, projectorVars, renderVars, settingsVars>>

\* The written stream is cut short.
Truncate ==
    /\ op \in {"serialize", "foreign"}
    /\ stream' = Some([Value(stream) EXCEPT !.framing = "truncated"])
    /\ op' = "damaged"
    /\ UNCHANGED <<db, result>>
    /\ UNCHANGED <<routerVars, graphVars, catalogueVars, projectorVars, renderVars, settingsVars>>

\* The written stream's Router message differs in one place.
DamageRouter ==
    /\ op \in {"serialize", "foreign"}
    /\ LET tr == TransportRouterMsgOf(Value(stream))
       IN  \E m \in DamagedRouters(RouterMsgOf(tr)) :
             stream' = Some([Value(stream) EXCEPT !.database.transport_router =
                                Some([tr EXCEPT !.router = Some(m)])])
    /\ op' = "damaged"
    /\ UNCHANGED <<db, result>>
    /\ UNCHANGED <<routerVars, graphVars, catalogueVars, projectorVars, renderVars, settingsVars>>

\* The written stream lacks the routing settings, or the velocity in them.
DamageSettings ==
    /\ op \in {"serialize", "foreign"}
    /\ LET tr == TransportRouterMsgOf(Value(stream))
       IN  \E rs \in {Nullopt,
                      Some([Value(tr.routing_settings) EXCEPT !.bus_velocity = Nullopt])} :
             stream' = Some([Value(stream) EXCEPT !.database.transport_router =
                                Some([tr EXCEPT !.routing_settings = rs])])
    /\ op' = "damaged"
    /\ UNCHANGED <<db, result>>
    /\ UNCHANGED <<routerVars, graphVars, catalogueVars, projectorVars, renderVars, settingsVars>>

\* process_requests: Deserialize reads the stream.
DoDeserialize ==
    /\ HasValue(stream)
    /\ op # "deserialize"
    /\ result' \in Deserialize(Value(stream))
    /\ writes' = IF ParseFromIstream(Value(stream))
                 THEN RouterWrites(RouterMsgOf(TransportRouterMsgOf(Value(stream))))
                 ELSE {}
    /\ op' = "deserialize"
    /\ UNCHANGED <<db, stream>>
    /\ UNCHANGED <<routes, router_msg, routes_out>>
    /\ UNCHANGED <<graphVars, catalogueVars, projectorVars, renderVars, settingsVars>>

Next ==
    \/ DoSerialize
    \/ ForeignWrite
    \/ Truncate
    \/ DamageRouter
    \/ DamageSettings
    \/ DoDeserialize

Spec == Init /\ [][Next]_vars

----------------------------------------------------------------------------
(* Claims about the top level *)

\* The stream Deserialize read, its TransportRouter and Router messages.
ReadStream == Value(stream)
ReadRouter == RouterMsgOf(TransportRouterMsgOf(ReadStream))
Decoded == op = "deserialize" /\ ParseFromIstream(ReadStream)
\* Deserialize reported failure: it returned no result.
Rejected == result.status = "nullopt"

\* The present entries of a Router message, as <<row, column>> positions.
PresentEntries(m) ==
    {c \in (1..Len(m.route_list)) \X (1..MaxV + 2) :
        /\ c[2] <= Len(m.route_list[c[1]].route)
        /\ HasValue(m.route_list[c[1]].route[c[2]].data)}

\* C2: decoding a blob whose route table has a number of rows different
\* from the vertex count of its Graph section fails, and what was in memory
\* before stays.
C2_RowCountMismatchRejected ==
    (/\ Decoded
     /\ HasGraphSection(TransportRouterMsgOf(ReadStream))
     /\ Len(ReadRouter.route_list)
            # Scalar(GraphSectionOf(TransportRouterMsgOf(ReadStream)).vertex_count))
    => Rejected

\* C3: decoding rejects every blob in which a present route-table entry
\* names a predecessor edge id at or past the number of edges of the graph,
\* and no decoded table holds such an entry.
C3_BadPredecessorRejected ==
    (/\ Decoded
     /\ HasGraphSection(TransportRouterMsgOf(ReadStream))
     /\ \E c \in PresentEntries(ReadRouter) :
            LET d == DataOf(ReadRouter.route_list[c[1]].route[c[2]])
            IN  /\ HasValue(d.prev_edge)
                /\ Scalar(PrevEdgeOf(d).id)
                      >= Len(GraphSectionOf(TransportRouterMsgOf(ReadStream)).edge))
    => Rejected

\* C4: decode is all-or-nothing.  A Deserialize of a stream that does not
\* parse returns no result and leaves what is in memory as it was; a result
\* is returned only for a stream that parses, and it then holds the
\* catalogue, the map renderer and the router, all three.
C4_AllOrNothing ==
    [][op' = "deserialize" =>
        /\ db' = db
        /\ ~ParseFromIstream(ReadStream) => result'.status = "nullopt"
        /\ result'.status = "returned" =>
            /\ ParseFromIstream(ReadStream)
            /\ DOMAIN result'.data =
                  {"transport_catalogue", "map_renderer", "transport_router"}]_vars

\* A truncated stream was read and no result came back.
C4_Witness ==
    /\ op = "deserialize"
    /\ ~ParseFromIstream(ReadStream)
    /\ result.status = "nullopt"
    /\ Len(db.router.routes) = 2

\* Required fields a Router or TransportRouter message lacks.
RowTooShort(m) ==
    \E f \in 1..Len(m.route_list) : Len(m.route_list[f].route) < Len(m.route_list)
WeightMissing(m) ==
    \E c \in PresentEntries(m) :
        ~HasValue(DataOf(m.route_list[c[1]].route[c[2]]).weight)
SettingsMissing(tr) ==
    \/ ~HasValue(tr.routing_settings)
    \/ ~HasValue(Value(tr.routing_settings).bus_wait_time)
    \/ ~HasValue(Value(tr.routing_settings).bus_velocity)

\* C5: decoding never substitutes defaults for missing required fields: a
\* blob with a route-table row shorter than the vertex count, a present
\* entry without weight, or routing settings without wait time or velocity
\* is rejected.
C5_NoSilentDefaults ==
    (/\ Decoded
     /\ \/ RowTooShort(ReadRouter)
        \/ WeightMissing(ReadRouter)
        \/ SettingsMissing(TransportRouterMsgOf(ReadStream)))
    => Rejected

\* C6: the blob Serialize writes holds the Graph section (the vertex count
\* and every edge of the router's graph in edge-id order) and the complete
\* V x V route table.
C6_BlobHasGraphAndTable ==
    op = "serialize" =>
        LET tr == TransportRouterMsgOf(ReadStream)
            g == db.router.graph
        IN  /\ HasGraphSection(tr)
            /\ Scalar(GraphSectionOf(tr).vertex_count) = GetVertexCount(g)
            /\ Len(GraphSectionOf(tr).edge) = GetEdgeCount(g)
            /\ \A e \in 0..GetEdgeCount(g) - 1 :
                  EdgeOf(GraphSectionOf(tr).edge[e + 1]) = GetEdge(g, e)
            /\ Len(RouterMsgOf(tr).route_list) = GetVertexCount(g)
            /\ \A f \in 1..GetVertexCount(g) :
                  Len(RouterMsgOf(tr).route_list[f].route) = GetVertexCount(g)

\* C10: decoding a route table is memory-safe and yields a square table.
\* With V the number of rows of the parsed Router message, every store goes
\* to an entry (from_id, to_id) with from_id < V and to_id < V, also when a
\* row holds more than V entries, and the table returned has V rows of V
\* entries.
C10_DecodeMemorySafe ==
    Decoded =>
        LET V == Len(ReadRouter.route_list)
        IN  /\ \A w \in writes : w[1] < V /\ w[2] < V
            /\ result.status = "returned"
            /\ Len(result.data.transport_router.routes) = V
            /\ \A f \in 1..V : Len(result.data.transport_router.routes[f]) = V
----------------------------------------------------------------------------
(* MapRenderer: RenderMap *)

(***************************************************************************)
(* The arguments of a RenderMap call are [settings, stops, buses]:         *)
(* settings is the renderer's settings_, stops the stops the bus pointers  *)
(* refer to, buses the range [first, last) as a sequence of buses.  A      *)
(* document is the sequence of the objects added to it, each               *)
(* [layer, part, name, position, color].                                   *)
(***************************************************************************)

\* Names in the order operator< of std::string puts them.
NameOrder == <<"A", "B", "C", "D">>
NameRank(name) == CHOOSE i \in 1..Len(NameOrder) : NameOrder[i] = name

\* StopComparator: a stop comes before another when its name does.
StopComparator(cat, lhs, rhs) ==
    NameRank(Deref(cat, lhs).name) < NameRank(Deref(cat, rhs).name)

\* Iteration of a std::set<StopPtr, StopComparator> holding the stops S.
RECURSIVE SetRange(_, _)
SetRange(cat, S) ==
    IF S = {} THEN <<>>
    ELSE LET least == CHOOSE x \in S : \A y \in S \ {x} : StopComparator(cat, x, y)
         IN  <<least>> \o SetRange(cat, S \ {least})

\* The first loop of RenderMap: every stop of every bus is inserted.
StopsOf(buses) ==
    UNION {{buses[k].stops[n] : n \in 1..Len(buses[k].stops)} : k \in 1..Len(buses)}

\* What a read of front() or back() of an empty vector, or of
\* color_palette[index % 0], hands on.
GarbagePoint == [x |-> Frac(-1, 1), y |-> Frac(-1, 1)]
GarbageColor == [kind |-> "string", name |-> "?"]

\* svg::Document::Add.
Add(doc, object) == Append(doc, object)

\* RenderRouteLine: the polyline of a bus.
RenderRouteLine(cat, bus, color, projector_) ==
    [layer |-> "route_line", part |-> "line", name |-> bus.name,
     position |-> [n \in 1..Len(bus.stops) |->
                     Project(projector_, Deref(cat, bus.stops[n]).coordinates)],
     color |-> color]

\* RenderRouteName: the underlayer and the label of a bus name at a position,
\* appended to out_texts.
RenderRouteName(settings_, position, color, name, out_texts) ==
    out_texts \o
    <<[layer |-> "route_name", part |-> "underlayer", name |-> name,
       position |-> position, color |-> settings_.underlayer_color],
      [layer |-> "route_name", part |-> "label", name |-> name,
       position |-> position, color |-> color]>>

\* RenderStopName: the underlayer and the label of a stop name, added to the
\* document.
RenderStopName(settings_, position, name, doc) ==
    Add(Add(doc, [layer |-> "stop_name", part |-> "underlayer", name |-> name,
                  position |-> position, color |-> settings_.underlayer_color]),
        [layer |-> "stop_name", part |-> "label", name |-> name,
         position |-> position, color |-> [kind |-> "string", name |-> "black"]])

\* settings_.color_palette[index % nums].
PaletteColor(settings_, index) ==
    IF Len(settings_.color_palette) = 0 THEN GarbageColor
    ELSE settings_.color_palette[(index % Len(settings_.color_palette)) + 1]

\* projector(bus->stops.front()->coordinates) and the same of back().
FrontOf(cat, bus, projector_) ==
    IF Len(bus.stops) = 0 THEN GarbagePoint
    ELSE Project(projector_, Deref(cat, bus.stops[1]).coordinates)
BackOf(cat, bus, projector_) ==
    IF Len(bus.stops) = 0 THEN GarbagePoint
    ELSE Project(projector_, Deref(cat, bus.stops[Len(bus.stops)]).coordinates)

\* bus->stops.front() != bus->stops.back(); of an empty vector the two reads
\* compare either way (differ).
EndsDiffer(bus, differ) ==
    IF Len(bus.stops) = 0 THEN differ
    ELSE bus.stops[1] # bus.stops[Len(bus.stops)]

\* The first loop of RenderRoutes from position it on, index being it - 1:
\* the state after the loop is [document, route_names].
RECURSIVE RenderRoutesFrom(_, _, _, _, _, _, _, _)
RenderRoutesFrom(cat, buses, it, settings_, projector_, differ, doc, route_names) ==
    IF it > Len(buses) THEN [document |-> doc, route_names |-> route_names]
    ELSE LET color == PaletteColor(settings_, it - 1)
             bus == buses[it]
             front == RenderRouteName(settings_, FrontOf(cat, bus, projector_),
                                      color, bus.name, route_names)
         IN  RenderRoutesFrom(cat, buses, it + 1, settings_, projector_, differ,
                Add(doc, RenderRouteLine(cat, bus, color, projector_)),
                IF ~bus.is_roundtrip /\ EndsDiffer(bus, differ)
                THEN RenderRouteName(settings_, BackOf(cat, bus, projector_),
                                     color, bus.name, front)
                ELSE front)

\* RenderRoutes: the lines in the loop, then every collected name.
RenderRoutes(cat, buses, settings_, projector_, differ, doc) ==
    LET after == RenderRoutesFrom(cat, buses, 1, settings_, projector_, differ,
                                  doc, <<>>)
    IN  after.document \o after.route_names

\* The circle of a stop.
Circle(settings_, position, name) ==
    [layer |-> "stop_circle", part |-> "circle", name |-> name,
     position |-> position, color |-> [kind |-> "string", name |-> "white"]]

\* The two loops of RenderStops from position it on.
RECURSIVE RenderCirclesFrom(_, _, _, _, _, _)
RenderCirclesFrom(cat, stops, it, settings_, projector_, doc) ==
    IF it > Len(stops) THEN doc
    ELSE LET stop == Deref(cat, stops[it])
         IN  RenderCirclesFrom(cat, stops, it + 1, settings_, projector_,
                Add(doc, Circle(settings_, Project(projector_, stop.coordinates),
                                stop.name)))

RECURSIVE RenderStopNamesFrom(_, _, _, _, _, _)
RenderStopNamesFrom(cat, stops, it, settings_, projector_, doc) ==
    IF it > Len(stops) THEN doc
    ELSE LET stop == Deref(cat, stops[it])
         IN  RenderStopNamesFrom(cat, stops, it + 1, settings_, projector_,
                RenderStopName(settings_, Project(projector_, stop.coordinates),
                               stop.name, doc))

\* RenderStops: every circle, then every name.
RenderStops(cat, stops, settings_, projector_, doc) ==
    RenderStopNamesFrom(cat, stops, 1, settings_, projector_,
        RenderCirclesFrom(cat, stops, 1, settings_, projector_, doc))

\* The projector RenderMap builds from the coordinates of the stop set.
ProjectorOf(args, stops) ==
    SphereProjector([i \in 1..Len(stops) |-> Deref(args, stops[i]).coordinates],
                    args.settings.width, args.settings.height,
                    args.settings.padding)

\* A plausible slip: the stops are rendered before the routes.
RenderMapStopsFirst(args, differ) ==
    LET stops == SetRange(args, StopsOf(args.buses))
        projector_ == ProjectorOf(args, stops)
    IN  RenderRoutes(args, args.buses, args.settings, projector_, differ,
            RenderStops(args, stops, args.settings, projector_, <<>>))

\* svg::Document RenderMap(first, last).
RenderMap(args, differ) ==
    LET stops == SetRange(args, StopsOf(args.buses))
        projector_ == ProjectorOf(args, stops)
    IN  RenderStops(args, stops, args.settings, projector_,
            RenderRoutes(args, args.buses, args.settings, projector_, differ, <<>>))

\* Whether the call reads front() of an empty vector or divides by an empty
\* palette's size.
ReadsOutside(args) ==
    \/ Len(args.buses) > 0 /\ Len(args.settings.color_palette) = 0
    \/ \E k \in 1..Len(args.buses) : Len(args.buses[k].stops) = 0

\* What a call of RenderMap can end in.  A read outside a vector and a
\* division by zero are undefined behaviour: the call may crash, or return
\* with whatever was read.
RenderOutcomes(args) ==
    IF ReadsOutside(args)
    THEN {[status |-> "crashed", data |-> <<>>]}
         \cup {[status |-> "returned", data |-> RenderMap(args, differ)] :
                  differ \in BOOLEAN}
    ELSE {[status |-> "returned", data |-> RenderMap(args, FALSE)]}

\* Inputs: up to MaxStops stops, up to two buses of up to two stops each and
\* a palette of none, one or two colors.
Palettes == {SubSeq(SampleSettings.color_palette, 1, n) : n \in 0..2}

InitRender ==
    /\ \E N \in 0..MaxStops : \E nb \in 0..2 : \E bs \in [1..nb -> BusBodies(N)] :
       \E palette \in Palettes :
            render_args =
                [settings |-> [SampleSettings EXCEPT !.color_palette = palette],
                 stops |-> [i \in 1..N |-> InputStop(i)],
                 buses |-> [b \in 1..nb |->
                              [name |-> BusNames[b],
                               is_roundtrip |-> bs[b].is_roundtrip,
                               stops |-> bs[b].stops]]]
    /\ document = NoOutcome
    /\ IdleRouter /\ IdleGraph /\ IdleCatalogue /\ IdleProjector /\ IdleTop
    /\ IdleSettings

DoRenderMap ==
    /\ document' \in RenderOutcomes(render_args)
    /\ UNCHANGED render_args
    /\ UNCHANGED <<routerVars, graphVars, catalogueVars, projectorVars, topVars,
                   settingsVars>>

NextRender ==
    \/ DoRenderMap

SpecRender == InitRender /\ [][NextRender]_vars

\* The objects of one layer of a document, in document order.
Layer(doc, layer) == SelectSeq(doc, LAMBDA el : el.layer = layer)
LayerRank(el) ==
    CASE el.layer = "route_line" -> 1
      [] el.layer = "route_name" -> 2
      [] el.layer = "stop_circle" -> 3
      [] el.layer = "stop_name" -> 4
BusIndex(args, name) ==
    CHOOSE k \in 1..Len(args.buses) : args.buses[k].name = name
StopNamesOf(args) == {Deref(args, ptr).name : ptr \in StopsOf(args.buses)}

\* C11: layer order of the rendered map.  In the document RenderMap returns,
\* every route polyline comes before every route-name text, every route-name
\* text before every stop circle and every stop circle before every
\* stop-name label; the polylines and the route-name texts follow the order
\* of the buses in the input range, one polyline and at least one name per
\* bus, and the circles and the labels follow the stops of the buses in the
\* order of their names, one circle per stop.
C11_LayerOrder ==
    document.status = "returned" =>
        LET doc == document.data
            lines == Layer(doc, "route_line")
            names == Layer(doc, "route_name")
            circles == Layer(doc, "stop_circle")
            labels == Layer(doc, "stop_name")
        IN  /\ \A i \in 1..Len(doc) : \A j \in 1..Len(doc) :
                  i < j => LayerRank(doc[i]) <= LayerRank(doc[j])
            /\ Len(lines) = Len(render_args.buses)
            /\ \A k \in 1..Len(lines) : lines[k].name = render_args.buses[k].name
            /\ {names[i].name : i \in 1..Len(names)}
                  = {render_args.buses[k].name : k \in 1..Len(render_args.buses)}
            /\ \A i \in 1..Len(names) : \A j \in 1..Len(names) :
                  i < j => BusIndex(render_args, names[i].name)
                              <= BusIndex(render_args, names[j].name)
            /\ {circles[i].name : i \in 1..Len(circles)} = StopNamesOf(render_args)
            /\ \A i \in 1..Len(circles) : \A j \in 1..Len(circles) :
                  i < j => NameRank(circles[i].name) < NameRank(circles[j].name)
            /\ {labels[i].name : i \in 1..Len(labels)} = StopNamesOf(render_args)
            /\ \A i \in 1..Len(labels) : \A j \in 1..Len(labels) :
                  i < j => NameRank(labels[i].name) <= NameRank(labels[j].name)

\* A returned map of two buses over two stops whose name order is the
\* reverse of the order the first bus visits them in; the first bus is not a
\* round trip, so its name is placed at both ends.
C11_Witness ==
    /\ document.status = "returned"
    /\ Len(render_args.buses) = 2
    /\ ~render_args.buses[1].is_roundtrip
    /\ render_args.buses[1].stops = <<InputPtr(1), InputPtr(2)>>
    /\ Len(render_args.buses[2].stops) = 1
    /\ Len(render_args.settings.color_palette) = 1
    /\ Len(Layer(document.data, "route_line")) = 2
    /\ Len(Layer(document.data, "route_name")) = 6
    /\ Len(Layer(document.data, "stop_circle")) = 2
    /\ Layer(document.data, "stop_circle")[1].name = "A"
    /\ Len(Layer(document.data, "stop_name")) = 4
----------------------------------------------------------------------------
(* RenderSettings: the codec of the render settings *)

\* Inputs: settings whose colors take every alternative of svg::Color, with
\* a palette of at most MaxPalette colors.
MaxPalette == 2

Colors ==
    {[kind |-> "string", name |-> "green"],
     [kind |-> "string", name |-> ""],
     [kind |-> "rgb", red |-> 255, green |-> 160, blue |-> 0],
     [kind |-> "rgba", red |-> 255, green |-> 160, blue |-> 0, opacity |-> 85]}

InitSettings ==
    /\ \E n \in 0..MaxPalette : \E palette \in [1..n -> Colors] :
       \E underlayer \in Colors : \E w \in {0, 600} : \E size \in {0, 20} :
       \E offset \in {[x |-> 7, y |-> -3], [x |-> 0, y |-> 0]} :
            render_settings =
                [SampleSettings EXCEPT !.width = w,
                                       !.bus_label_font_size = size,
                                       !.stop_label_offset = offset,
                                       !.underlayer_color = underlayer,
                                       !.color_palette = palette]
    /\ render_settings_msg = Nullopt
    /\ render_settings_out = NoOutcome
    /\ IdleRouter /\ IdleGraph /\ IdleCatalogue /\ IdleProjector /\ IdleTop
    /\ IdleRender

DoSerializeRenderSettings ==
    /\ render_settings_msg' = Some(SerializeRenderSettings(render_settings))
    /\ UNCHANGED <<render_settings, render_settings_out>>
    /\ UNCHANGED <<routerVars, graphVars, catalogueVars, projectorVars, topVars,
                   renderVars>>

DoDeserializeRenderSettings ==
    /\ HasValue(render_settings_msg)
    /\ render_settings_out' =
          [status |-> "returned",
           data |-> DeserializeRenderSettings(Value(render_settings_msg))]
    /\ UNCHANGED <<render_settings, render_settings_msg>>
    /\ UNCHANGED <<routerVars, graphVars, catalogueVars, projectorVars, topVars,
                   renderVars>>

NextSettings ==
    \/ DoSerializeRenderSettings
    \/ DoDeserializeRenderSettings

SpecSettings == InitSettings /\ [][NextSettings]_vars

\* Two colors hold the same alternative with the same components.
SameColor(a, b) ==
    /\ a.kind = b.kind
    /\ a.kind = "string" => a.name = b.name
    /\ a.kind \in {"rgb", "rgba"} =>
          a.red = b.red /\ a.green = b.green /\ a.blue = b.blue
    /\ a.kind = "rgba" => a.opacity = b.opacity

\* C12: render-settings round trip.  Settings encoded and decoded are equal
\* to the original in every field (width, height, padding, line width, stop
\* radius, both font sizes, both label offsets, underlayer width and color),
\* and the palette has the same length and order, each color with the
\* alternative (name, Rgb or Rgba) and the components it had.
C12_RenderSettingsRoundTrip ==
    (render_settings_out.status = "returned"
        /\ render_settings_msg = Some(SerializeRenderSettings(render_settings))) =>
    LET a == render_settings
        b == render_settings_out.data
    IN  /\ b.width = a.width
        /\ b.height = a.height
        /\ b.padding = a.padding
        /\ b.line_width = a.line_width
        /\ b.stop_radius = a.stop_radius
        /\ b.bus_label_font_size = a.bus_label_font_size
        /\ b.stop_label_font_size = a.stop_label_font_size
        /\ b.bus_label_offset = a.bus_label_offset
        /\ b.stop_label_offset = a.stop_label_offset
        /\ b.underlayer_width = a.underlayer_width
        /\ SameColor(a.underlayer_color, b.underlayer_color)
        /\ Len(b.color_palette) = Len(a.color_palette)
        /\ \A i \in 1..Len(a.color_palette) :
              SameColor(a.color_palette[i], b.color_palette[i])

\* Decoded settings whose palette holds an Rgb and then an Rgba color and
\* whose underlayer color is a name.
C12_Witness ==
    /\ render_settings_out.status = "returned"
    /\ Len(render_settings.color_palette) = 2
    /\ render_settings.color_palette[1].kind = "rgb"
    /\ render_settings.color_palette[2].kind = "rgba"
    /\ render_settings.underlayer_color = [kind |-> "string", name |-> "green"]
    /\ Len(render_settings_out.data.color_palette) = 2
====
